---- MODULE Spec2Model ----
(***************************************************************************)
(* A model of solutions.py: the Streamlit session (API key, upload,        *)
(* session_state), the extraction run (prompt, one chat completion call,   *)
(* pydantic validation of the reply) and the Excel export.                 *)
(*                                                                         *)
(* JSON text is modelled by what it parses to.  A JSON value is a record   *)
(* [t, s]: t is its JSON type ("absent" when the member is not in the      *)
(* object) and s its characters when it is a string.  Python's None and    *)
(* the empty list are kept apart: an optional list is [is_none, list].     *)
(***************************************************************************)
EXTENDS Integers, Sequences, FiniteSets, TLC

\* Longest array the modelled backend puts under a top-level key.
MaxLen == 4

----------------------------------------------------------------------------
(* JSON values of the reply                                                *)

Absent == [t |-> "absent", s |-> ""]
Str(x) == [t |-> "string", s |-> x]
Num    == [t |-> "number", s |-> ""]
Null   == [t |-> "null", s |-> ""]

Obj(k, v, c, n) == [Key |-> k, Value |-> v, Comment |-> c, comment |-> n]

\* The array elements the backend may emit: the two well-formed ones, and
\* elements with one member missing, empty, of another type or spelled
\* under the attribute name instead of the alias.
Elements ==
  {Obj(Str("k"), Str("v"), c, Absent) : c \in {Str(""), Str("c")}}
  \cup {Obj(k, Str("v"), Str(""), Absent) : k \in {Absent, Str(""), Num}}
  \cup {Obj(Str("k"), v, Str("c"), Absent) : v \in {Absent, Str(""), Null}}
  \cup {Obj(Str("k"), Str("v"), Num, Absent),
        Obj(Str("k"), Str("v"), Absent, Absent),
        Obj(Str("k"), Str("v"), Absent, Str("n"))}

NoMember     == [t |-> "absent", items |-> <<>>]
ArrayOf(s)   == [t |-> "array", items |-> s]
StringMember == [t |-> "string", items |-> <<>>]
NullMember   == [t |-> "null", items |-> <<>>]

Reply(ok, top, ed, d, n) ==
  [text_ok |-> ok, top_t |-> top, extracted_data |-> ed, data |-> d, note |-> n]

\* Replies that hold no array: text that is not JSON, a top-level array, an
\* empty object, and "extracted_data" holding a string or null.
PlainReplies ==
  {Reply(FALSE, "none", NoMember, NoMember, NoMember),
   Reply(TRUE, "array", NoMember, NoMember, NoMember),
   Reply(TRUE, "object", NoMember, NoMember, NoMember),
   Reply(TRUE, "object", StringMember, NoMember, NoMember),
   Reply(TRUE, "object", NullMember, NoMember, NoMember)}

\* The objects that hold array s: under "extracted_data", under "data", and
\* under "extracted_data" with a second member "note" beside it.
ArrayReplies(s) ==
  {Reply(TRUE, "object", ArrayOf(s), NoMember, NoMember),
   Reply(TRUE, "object", NoMember, ArrayOf(s), NoMember),
   Reply(TRUE, "object", ArrayOf(s), NoMember, StringMember)}

\* The session specification draws arrays of at most this many elements.
SessionLen == 1

----------------------------------------------------------------------------
(* Pydantic models                                                         *)

NoAlias == "<no alias>"

\* ExtractedPair: the fields in declaration order, attribute name and alias.
ExtractedPairFields ==
  << [name |-> "Key", alias |-> NoAlias],
     [name |-> "Value", alias |-> NoAlias],
     [name |-> "comment", alias |-> "Comment"] >>

\* model_config = ConfigDict(populate_by_name=True)
populate_by_name == TRUE

\* The name a field has on the wire with by_alias=True.
WireName(f) == IF f.alias # NoAlias THEN f.alias ELSE f.name

\* The member of JSON object obj that validation reads for field f: the
\* alias first, then (no alias, or populate_by_name) the attribute name.
FieldLookup(obj, f) ==
  IF f.alias # NoAlias /\ obj[f.alias].t # "absent" THEN obj[f.alias]
  ELSE IF (f.alias = NoAlias \/ populate_by_name) /\ obj[f.name].t # "absent"
       THEN obj[f.name]
       ELSE Absent

\* StrError with a minimum length of one on every str field.
StrErrorNonEmpty(v) ==
  IF v.t = "absent" THEN "missing"
  ELSE IF v.t # "string" THEN "string_type"
  ELSE IF v.s = "" THEN "string_too_short" ELSE "ok"

\* A str field takes a JSON string of any length, the empty one included,
\* and no other JSON type; a member that is not there is "missing".
StrError(v) ==
  IF v.t = "absent" THEN "missing"
  ELSE IF v.t # "string" THEN "string_type" ELSE "ok"

\* ElementErrors that validates the first element of the array only.
ElementErrorsFirstOnly(obj, i) ==
  IF i # 1 THEN {}
  ELSE {[index |-> i, field |-> WireName(ExtractedPairFields[j]),
         type |-> StrError(FieldLookup(obj, ExtractedPairFields[j]))] :
           j \in {j \in 1..Len(ExtractedPairFields) :
                    StrError(FieldLookup(obj, ExtractedPairFields[j])) # "ok"}}

\* The errors pydantic collects for element i of the array.
ElementErrors(obj, i) ==
  {[index |-> i, field |-> WireName(ExtractedPairFields[j]),
    type |-> StrError(FieldLookup(obj, ExtractedPairFields[j]))] :
      j \in {j \in 1..Len(ExtractedPairFields) :
               StrError(FieldLookup(obj, ExtractedPairFields[j])) # "ok"}}

\* The ExtractedPair instance built from a valid element.
ExtractedPair(obj) ==
  [Key |-> FieldLookup(obj, ExtractedPairFields[1]).s,
   Value |-> FieldLookup(obj, ExtractedPairFields[2]).s,
   comment |-> FieldLookup(obj, ExtractedPairFields[3]).s]

EnvelopeError(type) == {[index |-> 0, field |-> "extracted_data", type |-> type]}

\* DocumentStructure.model_validate_json: the errors (empty when valid).
\* Members other than "extracted_data" are ignored (pydantic's default
\* extra = "ignore").
ValidationErrors(json_text) ==
  IF ~json_text.text_ok THEN {[index |-> 0, field |-> "", type |-> "json_invalid"]}
  ELSE IF json_text.top_t # "object"
       THEN {[index |-> 0, field |-> "", type |-> "model_type"]}
  ELSE IF json_text.extracted_data.t = "absent" THEN EnvelopeError("missing")
  ELSE IF json_text.extracted_data.t # "array" THEN EnvelopeError("list_type")
  ELSE UNION {ElementErrors(json_text.extracted_data.items[i], i) :
                i \in 1..Len(json_text.extracted_data.items)}

\* data_model.extracted_data of a valid reply.
ValidatedList(json_text) ==
  [i \in 1..Len(json_text.extracted_data.items) |->
     ExtractedPair(json_text.extracted_data.items[i])]

\* DocumentStructure.model_json_schema(by_alias=True): the envelope key and
\* the member names shown to the model.
model_json_schema ==
  [envelope |-> "extracted_data",
   properties |-> {WireName(ExtractedPairFields[j]) : j \in 1..Len(ExtractedPairFields)}]

\* item.model_dump(by_alias=True): the field values under their wire names.
model_dump(item) ==
  [w \in {WireName(ExtractedPairFields[j]) : j \in 1..Len(ExtractedPairFields)} |->
     item[ExtractedPairFields[CHOOSE j \in 1..Len(ExtractedPairFields) :
                                WireName(ExtractedPairFields[j]) = w].name]]

----------------------------------------------------------------------------
(* PDF text                                                                *)

\* A document is unreadable (PdfReader raises) or a sequence of pages, each
\* page the text pypdf extracts from it ("" when it extracts none).
CorruptDoc == [readable |-> FALSE, pages |-> <<>>]
Pdf(pages) == [readable |-> TRUE, pages |-> pages]
Docs == {CorruptDoc, Pdf(<<>>), Pdf(<<"alpha">>), Pdf(<<"beta", "">>)}
FileNames == {"a.pdf", "b.pdf"}

PageMarker(i) == <<"--- Page 1 ---", "--- Page 2 ---">>[i]

RECURSIVE PageTexts(_, _)
\* The loop over reader.pages; text is the sequence of its pieces.
PageTexts(pages, i) ==
  IF i > Len(pages) THEN <<>>
  ELSE <<PageMarker(i),
         IF pages[i] # "" THEN pages[i] ELSE "(No readable text on this page)">>
       \o PageTexts(pages, i + 1)

\* read_pdf_text: "" (the empty sequence) when the reader raises.  The
\* st.cache_data memo is keyed by the file's name and bytes, so a call
\* returns what the body computes for the file it is given.
read_pdf_text(doc) == IF doc.readable THEN PageTexts(doc.pages, 1) ELSE <<>>

----------------------------------------------------------------------------
(* Python values                                                           *)

PyNone == [is_none |-> TRUE, list |-> <<>>]
PyList(s) == [is_none |-> FALSE, list |-> s]
\* bool(x) of None or a list.
Truthy(x) == ~x.is_none /\ Len(x.list) > 0

NoFile == [present |-> FALSE]
File(n, d) == [present |-> TRUE, name |-> n, doc |-> d]

NoPrompt == [sent |-> FALSE]
NoReply == [received |-> FALSE]
NoError == [raised |-> FALSE]
NoBytes == [offered |-> FALSE]

ApiKeys == {"", "gsk_valid", "gsk_revoked"}

\* What client.models.list() may do with a key: succeed or raise.
ListOutcomes(api_key) == IF api_key = "gsk_valid" THEN BOOLEAN ELSE {FALSE}

\* init_client: the connected flag it returns.
init_client(api_key, list_ok) == IF api_key = "" THEN FALSE ELSE list_ok

\* The exceptions client.chat.completions.create may raise.
InvocationErrors ==
  {"APIConnectionError", "AuthenticationError", "APITimeoutError", "BadRequestError"}

----------------------------------------------------------------------------
(* Prompt, extraction, export                                              *)

generate_extraction_prompt(document_text) ==
  [sent |-> TRUE, schema |-> model_json_schema, document_text |-> document_text]

\* The except clause with a second attempt at the completion call.
ExceptClauseRetry(c) ==
  IF c < 2 THEN [pc |-> "waiting", calls |-> c + 1] ELSE [pc |-> "done", calls |-> c]

\* except Exception: report, return None; the run is over and no call is
\* issued again.
ExceptClause(c) == [pc |-> "done", calls |-> c]

\* The failure kind of an exception, by where it is raised.
FailureKind(e) ==
  IF e.exc # "ValidationError" THEN "InvocationFailure"
  ELSE IF \E x \in e.errors : x.type = "json_invalid" THEN "MalformedOutput"
  ELSE "SchemaViolation"

Header == <<"Key", "Value", "Comment">>

\* create_excel_bytes with the Value and Comment columns exchanged.
ExportRowSwapped(item) ==
  <<model_dump(item)["Key"], model_dump(item)["Comment"], model_dump(item)["Value"]>>

\* The row appended for one item.
ExportRow(item) ==
  <<model_dump(item)["Key"], model_dump(item)["Value"], model_dump(item)["Comment"]>>

RECURSIVE AppendRows(_, _)
AppendRows(ws, items) ==
  IF items = <<>> THEN ws
  ELSE AppendRows(Append(ws, ExportRow(Head(items))), Tail(items))

\* create_excel_bytes: the rows of the saved worksheet.
create_excel_bytes(extracted_data) == AppendRows(<<Header>>, extracted_data)

----------------------------------------------------------------------------
(* The session                                                             *)

VARIABLES
  connected,      \* main: what init_client returned in the last script run
  uploaded_file,  \* the file_uploader widget's value
  session_state,  \* st.session_state: API_KEY, pdf_content, last_uploaded_file
  pc,             \* where the last script run stands
  system_prompt,  \* the prompt of the completion call of this run
  calls,          \* completion calls issued in this run
  json_string,    \* the reply's message content
  error,          \* the exception caught and shown with st.error
  data,           \* main: what extract_data_with_llm returned
  excel_bytes,    \* main: the export handed to st.download_button
  failures        \* history: (kind, returned value) of the failed runs so far

vars == <<connected, uploaded_file, session_state, pc, system_prompt, calls,
          json_string, error, data, excel_bytes, failures>>

\* Lines 225-235: read the file when its name is not the last one read, or
\* when no text is kept.
SyncUpload(ss, f) ==
  LET s1 == IF "last_uploaded_file" \notin DOMAIN ss
               \/ f.name # ss["last_uploaded_file"]
            THEN ("pdf_content" :> read_pdf_text(f.doc))
                   @@ ("last_uploaded_file" :> f.name) @@ ss
            ELSE ss
  IN IF "pdf_content" \notin DOMAIN s1
     THEN ("pdf_content" :> read_pdf_text(f.doc)) @@ s1
     ELSE s1

\* What every script run does before it looks at the buttons.
AfterUpload(ss, f) == IF f.present THEN SyncUpload(ss, f) ELSE ss

\* A script run starts with fresh locals.
FreshLocals ==
  /\ system_prompt' = NoPrompt
  /\ calls' = 0
  /\ json_string' = NoReply
  /\ error' = NoError
  /\ data' = PyNone
  /\ excel_bytes' = NoBytes

\* The first script run: the key comes from the environment, nothing is
\* uploaded.
Init ==
  \E k \in ApiKeys, list_ok \in BOOLEAN :
    /\ list_ok \in ListOutcomes(k)
    /\ connected = init_client(k, list_ok)
    /\ session_state = ("API_KEY" :> k)
    /\ uploaded_file = NoFile
    /\ pc = IF init_client(k, list_ok) THEN "ready" ELSE "blocked"
    /\ system_prompt = NoPrompt
    /\ calls = 0
    /\ json_string = NoReply
    /\ error = NoError
    /\ data = PyNone
    /\ excel_bytes = NoBytes
    /\ failures = {}

\* The sidebar's key field is edited (or the script reruns with it as it
\* is): init_client decides whether the rest of the page is drawn.  A
\* widget that is not drawn loses its value.
EnterApiKey(k, list_ok) ==
  /\ pc # "waiting"
  /\ list_ok \in ListOutcomes(k)
  /\ connected' = init_client(k, list_ok)
  /\ IF init_client(k, list_ok)
     THEN /\ uploaded_file' = uploaded_file
          /\ session_state' = AfterUpload(("API_KEY" :> k) @@ session_state, uploaded_file)
          /\ pc' = "ready"
     ELSE /\ uploaded_file' = NoFile
          /\ session_state' = ("API_KEY" :> k) @@ session_state
          /\ pc' = "blocked"
  /\ FreshLocals
  /\ UNCHANGED failures

\* A file is chosen in the uploader.
UploadFile(n, d) ==
  /\ connected
  /\ pc # "waiting"
  /\ uploaded_file' = File(n, d)
  /\ session_state' = SyncUpload(session_state, File(n, d))
  /\ pc' = "ready"
  /\ FreshLocals
  /\ UNCHANGED <<connected, failures>>

\* The file is removed from the uploader.
RemoveFile ==
  /\ connected
  /\ pc # "waiting"
  /\ uploaded_file.present
  /\ uploaded_file' = NoFile
  /\ pc' = "ready"
  /\ FreshLocals
  /\ UNCHANGED <<connected, session_state, failures>>

\* Button 2: the kept text is shown.
ClickPreview ==
  /\ connected
  /\ pc # "waiting"
  /\ uploaded_file.present
  /\ session_state' = SyncUpload(session_state, uploaded_file)
  /\ pc' = "preview"
  /\ FreshLocals
  /\ UNCHANGED <<connected, uploaded_file, failures>>

\* Button 3, up to the completion call: main lines 251-261 and
\* extract_data_with_llm lines 126-139.
ClickRun ==
  /\ connected
  /\ pc # "waiting"
  /\ uploaded_file.present
  /\ session_state' = SyncUpload(session_state, uploaded_file)
  /\ LET pdf_text == SyncUpload(session_state, uploaded_file)["pdf_content"]
     IN IF pdf_text = <<>>
        THEN /\ pc' = "empty_text"
             /\ system_prompt' = NoPrompt
             /\ calls' = 0
        ELSE /\ pc' = "waiting"
             /\ system_prompt' = generate_extraction_prompt(pdf_text)
             /\ calls' = 1
  /\ json_string' = NoReply
  /\ error' = NoError
  /\ data' = PyNone
  /\ excel_bytes' = NoBytes
  /\ UNCHANGED <<connected, uploaded_file, failures>>

\* main lines 263-278 on what extract_data_with_llm returned.
AfterExtraction(ret) ==
  /\ data' = ret
  /\ excel_bytes' = IF Truthy(ret)
                    THEN [offered |-> TRUE, rows |-> create_excel_bytes(ret.list)]
                    ELSE NoBytes

\* The except clause of extract_data_with_llm for exception e, then main.
Failed(e) ==
  /\ error' = e
  /\ pc' = ExceptClause(calls).pc
  /\ calls' = ExceptClause(calls).calls
  /\ failures' = failures \cup {[kind |-> FailureKind(e), outcome |-> PyNone]}
  /\ AfterExtraction(PyNone)

\* The completion call raises.
BackendRaises(exc) ==
  /\ pc = "waiting"
  /\ json_string' = NoReply
  /\ Failed([raised |-> TRUE, exc |-> exc, errors |-> {}])
  /\ UNCHANGED <<connected, uploaded_file, session_state, system_prompt>>

\* The completion call returns reply: lines 141-148, then main.
BackendReturns(reply) ==
  /\ pc = "waiting"
  /\ json_string' = [received |-> TRUE, content |-> reply]
  /\ IF ValidationErrors(reply) = {}
     THEN /\ error' = NoError
          /\ pc' = "done"
          /\ AfterExtraction(PyList(ValidatedList(reply)))
          /\ UNCHANGED <<calls, failures>>
     ELSE Failed([raised |-> TRUE, exc |-> "ValidationError",
                  errors |-> ValidationErrors(reply)])
  /\ UNCHANGED <<connected, uploaded_file, session_state, system_prompt>>

\* The backend answers with any reply whose array has at most n elements.
ReceiveReply(n) ==
  /\ pc = "waiting"
  /\ \/ \E reply \in PlainReplies : BackendReturns(reply)
     \/ \E m \in 0..n : \E s \in [1..m -> Elements] :
          \E reply \in ArrayReplies(s) : BackendReturns(reply)

Next ==
  \/ \E k \in ApiKeys, list_ok \in BOOLEAN : EnterApiKey(k, list_ok)
  \/ \E n \in FileNames, d \in Docs : UploadFile(n, d)
  \/ RemoveFile
  \/ ClickPreview
  \/ ClickRun
  \/ pc = "waiting" /\ \E exc \in InvocationErrors : BackendRaises(exc)
  \/ ReceiveReply(SessionLen)

Spec == Init /\ [][Next]_vars

----------------------------------------------------------------------------
(* One extraction run of a connected session with a readable file          *)
(* uploaded, over every reply.                                             *)

PipelineInit ==
  /\ connected = TRUE
  /\ uploaded_file = File("a.pdf", Pdf(<<"alpha">>))
  /\ session_state = SyncUpload(("API_KEY" :> "gsk_valid"), File("a.pdf", Pdf(<<"alpha">>)))
  /\ pc = "ready"
  /\ system_prompt = NoPrompt
  /\ calls = 0
  /\ json_string = NoReply
  /\ error = NoError
  /\ data = PyNone
  /\ excel_bytes = NoBytes
  /\ failures = {}

PipelineNext ==
  \/ pc = "ready" /\ ClickRun
  \/ pc = "waiting" /\ \E exc \in InvocationErrors : BackendRaises(exc)
  \/ ReceiveReply(MaxLen)

PipelineSpec == PipelineInit /\ [][PipelineNext]_vars

----------------------------------------------------------------------------
(* Properties                                                              *)

\* The run is over and a reply was received.
Replied == pc = "done" /\ json_string.received
\* The array under "extracted_data" of the reply received.
Items == json_string.content.extracted_data.items
\* The run returned a record list.
Accepted == Replied /\ ~data.is_none

\* An element lacks a field (no member it can be read from is there) or
\* holds a non-string in it.
Defective(e) ==
  \/ e.Key.t # "string"
  \/ e.Value.t # "string"
  \/ IF e.Comment.t # "absent" THEN e.Comment.t # "string" ELSE e.comment.t # "string"

\* C1 (all-or-nothing validation): when any element of the envelope's array,
\* at any position, lacks a required field or has a non-string field, the
\* run returns no record list and produces no export rows; a record list
\* that is returned has one record per element, never fewer.
C1_AllOrNothing ==
  /\ (Replied /\ json_string.content.extracted_data.t = "array"
        /\ \E i \in 1..Len(Items) : Defective(Items[i]))
       => (data = PyNone /\ excel_bytes = NoBytes)
  /\ Accepted => Len(data.list) = Len(Items)

\* C1 witness: a three-element array whose second element alone lacks its
\* Value was received and rejected.
C1_Witness ==
  /\ Replied
  /\ json_string.content.extracted_data.t = "array"
  /\ Len(Items) = 3
  /\ ~Defective(Items[1]) /\ ~Defective(Items[3])
  /\ Items[2].Value.t = "absent"
  /\ data = PyNone

\* C2 (envelope strictness): a reply is accepted only if its top level is an
\* object with exactly the one member "extracted_data", an array.
C2_EnvelopeStrict ==
  Accepted =>
    /\ json_string.content.top_t = "object"
    /\ json_string.content.extracted_data.t = "array"
    /\ json_string.content.data.t = "absent"
    /\ json_string.content.note.t = "absent"

\* C3 (one-to-one aliasing): in an accepted reply every element carries each
\* field under the name the prompt's schema shows, so no element that
\* spells the comment field otherwise is accepted.
C3_AliasOneToOne ==
  Accepted =>
    \A i \in 1..Len(Items) :
      /\ \A w \in system_prompt.schema.properties : Items[i][w].t # "absent"
      /\ Items[i].comment.t = "absent"

\* C4 (typed failures): two runs that failed for different kinds never gave
\* their caller the same outcome.
C4_FailuresTyped ==
  \A f \in failures : \A g \in failures : f.kind # g.kind => f.outcome # g.outcome

\* C5 (no automatic retry): a run issues the completion call at most once,
\* and once an invocation, parse or validation failure is caught the run is
\* over with that one call issued.
C5_NoRetry ==
  /\ calls <= 1
  /\ error.raised => (pc = "done" /\ calls = 1)

\* C5 witness: a run ended on a validation failure, and another on an
\* invocation failure, with one call issued.
C5_Witness ==
  /\ pc = "done"
  /\ error.raised
  /\ error.exc = "ValidationError"
  /\ calls = 1
  /\ \E f \in failures : f.kind = "InvocationFailure"

\* C6 (export order and shape): the export's first row is the header
\* Key, Value, Comment and row i + 1 is the triple of record i, strings
\* unchanged, for each of the n validated records and no row more.
C6_ExportShape ==
  excel_bytes.offered =>
    /\ excel_bytes.rows[1] = <<"Key", "Value", "Comment">>
    /\ Len(excel_bytes.rows) = Len(data.list) + 1
    /\ \A i \in 1..Len(data.list) :
         excel_bytes.rows[i + 1]
           = <<data.list[i].Key, data.list[i].Value, data.list[i].comment>>
    /\ \A i \in 1..Len(Items) :
         excel_bytes.rows[i + 1][1] = Items[i].Key.s
           /\ excel_bytes.rows[i + 1][2] = Items[i].Value.s

\* C6 witness: three records, the first two different, were exported.
C6_Witness ==
  /\ excel_bytes.offered
  /\ Len(data.list) = 3
  /\ data.list[1] # data.list[2]
  /\ data.list[1].Value # data.list[1].comment

\* An element with non-empty Key and Value strings and a Comment string.
WellFormed(e) ==
  /\ e.Key.t = "string" /\ e.Key.s # ""
  /\ e.Value.t = "string" /\ e.Value.s # ""
  /\ e.Comment.t = "string"

\* The reply is an object with the one member "extracted_data", an array
\* of well-formed elements.
WellFormedReply ==
  /\ json_string.content.text_ok
  /\ json_string.content.top_t = "object"
  /\ json_string.content.extracted_data.t = "array"
  /\ json_string.content.data.t = "absent"
  /\ json_string.content.note.t = "absent"
  /\ \A i \in 1..Len(Items) : WellFormed(Items[i])

\* C7 (empty comment): a well-formed reply with records whose Comment is ""
\* validates, and each such record's comment is "" in the record list and
\* in its export row.
C7_EmptyComment ==
  (Replied /\ WellFormedReply /\ \E i \in 1..Len(Items) : Items[i].Comment.s = "")
    => /\ ~data.is_none
       /\ excel_bytes.offered
       /\ Len(data.list) = Len(Items)
       /\ \A i \in 1..Len(Items) :
            Items[i].Comment.s = ""
              => (data.list[i].comment = "" /\ excel_bytes.rows[i + 1][3] = "")

\* C7 witness: a reply with an empty and a non-empty Comment was validated.
C7_Witness ==
  /\ Replied
  /\ WellFormedReply
  /\ Len(Items) >= 2
  /\ Items[1].Comment.s = "c"
  /\ Items[2].Comment.s = ""
  /\ excel_bytes.offered

\* C8 (non-empty key and value): every record of an accepted result has a
\* non-empty Key and a non-empty Value.
C8_NonEmptyKeyValue ==
  Accepted =>
    \A i \in 1..Len(data.list) : data.list[i].Key # "" /\ data.list[i].Value # ""

\* C9 (a validated result is exported): whenever the run returned a record
\* list, of zero records too, the export was created and offered.
C9_ValidatedExported ==
  Accepted => excel_bytes.offered

\* C10 (runs are independent between documents): the document text sent to
\* the model is the text of the file uploaded at that time.
C10_SendsCurrentFile ==
  (system_prompt.sent /\ uploaded_file.present)
    => system_prompt.document_text = read_pdf_text(uploaded_file.doc)

====
